---- MODULE Spec2Model ----
(***************************************************************************)
(* Model of src/extract_screenshot.py: the pipeline that recovers an       *)
(* RGB565 screenshot embedded as a hex dump in a serial log and converts   *)
(* it to PNG.                                                              *)
(*                                                                         *)
(* Text is a sequence of chunks.  A chunk is one character ("a", "0",      *)
(* " ", "\n", ...) or one of the literal pieces the program searches for,  *)
(* kept atomic: "==========", " SCREENSHOT START ", " SCREENSHOT END ",    *)
(* "WIDTH", "HEIGHT", "FORMAT".  Offsets are 0-based, as in Python.        *)
(***************************************************************************)
EXTENDS Integers, Sequences, FiniteSets, TLC

VARIABLES
    pc,          \* position of the run in main / extract_screenshot / convert_to_png
    argv,        \* sys.argv
    fs,          \* the file system: file name -> file content
    out,         \* everything printed so far, in order
    exit_code,   \* -1 while running, then the process's exit status
    content,     \* extract_screenshot: content
    start_idx,   \* extract_screenshot: start_idx
    end_idx,     \* extract_screenshot: end_idx
    section,     \* extract_screenshot: screenshot_section
    width,       \* extract_screenshot: width
    height,      \* extract_screenshot: height
    hex_lines,   \* extract_screenshot: hex_lines
    hex_data,    \* extract_screenshot: hex_data
    raw_data,    \* extract_screenshot: raw_data
    result,      \* main: result (None, or <<raw_file, width, height, timestamp>>)
    pil,         \* convert_to_png: None, then "imported" or "ImportError" (line 99)
    pixels,      \* convert_to_png: pixels
    png_file,    \* main: png_file (None, or the name convert_to_png returned)
    sample,      \* pixel conversion alone: the two bytes of one sample
    rgb,         \* pixel conversion alone: the pixel produced from sample
    c8,          \* pixel conversion alone: an 8-bit channel value to round-trip
    peer         \* a second invocation of the script in the same directory

pipeVars == <<pc, argv, fs, out, exit_code, content, start_idx, end_idx, section,
              width, height, hex_lines, hex_data, raw_data, result, pil, pixels,
              png_file>>
pixVars == <<sample, rgb, c8>>
vars == <<pipeVars, pixVars, peer>>

\* Python's None, and the empty values locals hold before they are assigned.
None == "None"

-----------------------------------------------------------------------------
(* Bounds of the model. *)

\* Longest generated log, in lines.
MaxLines == 5
\* Most metadata tokens on the metadata line of a generated log.
MaxTokens == 3
\* Distinct wall-clock seconds datetime.now() may return.
MaxClock == 2

-----------------------------------------------------------------------------
(* Characters and Python string primitives. *)

NL == "\n"

Digits == {"0", "1", "2", "3", "4", "5", "6", "7", "8", "9"}
HexLower == {"a", "b", "c", "d", "e", "f"}
HexUpper == {"A", "B", "C", "D", "E", "F"}
Lower == HexLower \cup {"g", "h", "i", "j", "k", "l", "m", "n", "o", "p", "q", "r",
                        "s", "t", "u", "v", "w", "x", "y", "z"}
Upper == HexUpper \cup {"G", "H", "I", "J", "K", "L", "M", "N", "O", "P", "Q", "R",
                        "S", "T", "U", "V", "W", "X", "Y", "Z"}
\* The atomic chunks that consist of word characters only.
WordChunks == {"WIDTH", "HEIGHT", "FORMAT"}

\* The character classes of the program's regular expressions.
InClass(c, cls) ==
    CASE cls = "hex"   -> c \in Digits \cup HexLower \cup HexUpper
      [] cls = "digit" -> c \in Digits
      [] cls = "word"  -> c \in Digits \cup Lower \cup Upper \cup {"_"} \cup WordChunks

At(s, i) == s[i + 1]

\* s[a:b] for 0 <= a, 0 <= b.
Slice(s, a, b) ==
    LET hi == IF b < Len(s) THEN b ELSE Len(s)
    IN  IF a >= hi THEN <<>> ELSE SubSeq(s, a + 1, hi)

StartsWithAt(s, i, sub) ==
    /\ i + Len(sub) <= Len(s)
    /\ \A k \in 1..Len(sub) : s[i + k] = sub[k]

\* str.find: the lowest offset at which sub occurs in s, or -1.
Find(s, sub) ==
    LET hits == {i \in 0..Len(s) : StartsWithAt(s, i, sub)}
    IN  IF hits = {} THEN -1 ELSE CHOOSE i \in hits : \A j \in hits : i <= j

\* The end of the longest run of characters of class cls that starts at i.
RECURSIVE RunEnd(_, _, _)
RunEnd(s, i, cls) ==
    IF i < Len(s) /\ InClass(At(s, i), cls) THEN RunEnd(s, i + 1, cls) ELSE i

\* re.search(key + "(" + cls + "+)", s).group(1), scanning from offset i;
\* <<>> when there is no match (a match's group is never empty).
RECURSIVE ReSearch(_, _, _, _)
ReSearch(s, i, key, cls) ==
    IF i + Len(key) > Len(s) THEN <<>>
    ELSE LET from == i + Len(key)
             to   == RunEnd(s, from, cls)
         IN  IF StartsWithAt(s, i, key) /\ to > from
             THEN Slice(s, from, to)
             ELSE ReSearch(s, i + 1, key, cls)

DigitVal(c) ==
    CASE c = "0" -> 0 [] c = "1" -> 1 [] c = "2" -> 2 [] c = "3" -> 3 [] c = "4" -> 4
      [] c = "5" -> 5 [] c = "6" -> 6 [] c = "7" -> 7 [] c = "8" -> 8 [] c = "9" -> 9

\* int(digits), base 10.
RECURSIVE ParseInt(_)
ParseInt(d) ==
    IF d = <<>> THEN 0
    ELSE 10 * ParseInt(SubSeq(d, 1, Len(d) - 1)) + DigitVal(d[Len(d)])

\* The hex runs of s wherever they stand: the pattern without its ^ and $.
RECURSIVE FindAllHexRuns(_, _)
FindAllHexRuns(s, i) ==
    IF i >= Len(s) THEN <<>>
    ELSE LET to == RunEnd(s, i, "hex")
         IN  IF to > i
             THEN <<Slice(s, i, to)>> \o FindAllHexRuns(s, to)
             ELSE FindAllHexRuns(s, i + 1)

\* re.compile(r'^[0-9a-fA-F]+$', re.MULTILINE).findall(s), scanning from offset i.
RECURSIVE FindAllHexLines(_, _)
FindAllHexLines(s, i) ==
    IF i >= Len(s) THEN <<>>
    ELSE LET to == RunEnd(s, i, "hex")
         IN  IF /\ (i = 0 \/ At(s, i - 1) = NL)
                /\ to > i
                /\ (to = Len(s) \/ At(s, to) = NL)
             THEN <<Slice(s, i, to)>> \o FindAllHexLines(s, to)
             ELSE FindAllHexLines(s, i + 1)

\* ''.join(lines)
RECURSIVE Join(_)
Join(lines) == IF lines = <<>> THEN <<>> ELSE Head(lines) \o Join(Tail(lines))

HexVal(c) ==
    CASE c \in Digits -> DigitVal(c)
      [] c \in {"a", "A"} -> 10 [] c \in {"b", "B"} -> 11 [] c \in {"c", "C"} -> 12
      [] c \in {"d", "D"} -> 13 [] c \in {"e", "E"} -> 14 [] c \in {"f", "F"} -> 15

\* A decoder that drops an odd trailing digit instead of raising.
FromHexFailsOnNonHexOnly(h) == \E k \in 1..Len(h) : ~InClass(h[k], "hex")

\* bytes.fromhex(h) raises ValueError.
FromHexFails(h) ==
    \/ Len(h) % 2 = 1
    \/ \E k \in 1..Len(h) : ~InClass(h[k], "hex")

\* bytes.fromhex(h), for h on which it does not raise.
RECURSIVE FromHex(_)
FromHex(h) ==
    IF Len(h) < 2 THEN <<>>
    ELSE <<16 * HexVal(h[1]) + HexVal(h[2])>> \o FromHex(SubSeq(h, 3, Len(h)))

-----------------------------------------------------------------------------
(* Pixel conversion: lines 105-121 of convert_to_png. *)

Shr(x, n) == x \div (2 ^ n)
Shl(x, n) == x * (2 ^ n)

RECURSIVE BitAnd(_, _)
BitAnd(a, b) ==
    IF a = 0 \/ b = 0 THEN 0
    ELSE (a % 2) * (b % 2) + 2 * BitAnd(a \div 2, b \div 2)

RECURSIVE BitOr(_, _)
BitOr(a, b) ==
    IF a = 0 THEN b
    ELSE IF b = 0 THEN a
    ELSE (IF a % 2 = 1 \/ b % 2 = 1 THEN 1 ELSE 0) + 2 * BitOr(a \div 2, b \div 2)

\* The byte order of the format '>H' the converter unpacks with.
DecoderByteOrder == "MSB"

\* The same two bytes read low byte first ('<H').
UnpackLittleEndian(b) == b[1] + 256 * b[2]
\* struct.unpack('>H', b)[0], for b of exactly two bytes.
UnpackH(b) == 256 * b[1] + b[2]

\* The 5-bit channel widened by a left shift alone, its low bits left zero.
Expand5ZeroFill(v) == Shl(v, 3)
\* (v << 3) | (v >> 2): a 5-bit channel widened to 8 bits.
Expand5(v) == BitOr(Shl(v, 3), Shr(v, 2))

\* (v << 2) | (v >> 4): the 6-bit channel widened to 8 bits.
Expand6(v) == BitOr(Shl(v, 2), Shr(v, 4))

\* One iteration of the loop body: the pixel appended for the sample val.
Rgb565ToRgb888(val) ==
    LET r5 == BitAnd(Shr(val, 11), 31)
        g6 == BitAnd(Shr(val, 5), 63)
        b5 == BitAnd(val, 31)
    IN  <<Expand5(r5), Expand6(g6), Expand5(b5)>>

\* "for i in range(0, len(data), 2)" from offset i on: whether the loop ran to
\* its end, and the pixels appended. struct.unpack raises struct.error unless
\* data[i:i+2] holds exactly two bytes.
RECURSIVE ConvertSamples(_, _)
ConvertSamples(data, i) ==
    IF i >= Len(data) THEN [ok |-> TRUE, pixels |-> <<>>]
    ELSE LET two == Slice(data, i, i + 2)
         IN  IF Len(two) # 2 THEN [ok |-> FALSE, pixels |-> <<>>]
             ELSE LET rest == ConvertSamples(data, i + 2)
                  IN  [ok |-> rest.ok,
                       pixels |-> <<Rgb565ToRgb888(UnpackH(two))>> \o rest.pixels]

-----------------------------------------------------------------------------
(* Literals of the program. *)

\* "========== SCREENSHOT START ==========" and "========== SCREENSHOT END ==========",
\* each "==========" one chunk: the tail of the one marker is the head of the other.
start_marker == <<"==========", " SCREENSHOT START ", "==========">>
end_marker == <<"==========", " SCREENSHOT END ", "==========">>

KeyFormat == <<"FORMAT", ":">>
KeyWidth == <<"WIDTH", ":">>
KeyHeight == <<"HEIGHT", ":">>

DefaultWidth == 240
DefaultHeight == 320

\* f"screenshot_{timestamp}.raw" and f"screenshot_{timestamp}.png"
RawName(ts) == <<"screenshot_", ts, ".raw">>
PngName(ts) == <<"screenshot_", ts, ".png">>

\* The manual recipe convert_to_png prints when PIL is missing (line 134).
RecipeImportError(w, h, raw, png) ==
    [depth |-> 5, size |-> <<w, h>>, endian |-> "unstated", coder |-> "RGB565",
     from |-> raw, to |-> png]

\* The manual recipe main prints when convert_to_png returned None (line 174).
RecipeMain(w, h, raw, png) ==
    [depth |-> 16, size |-> <<w, h>>, endian |-> "LSB", coder |-> "rgb",
     from |-> raw, to |-> png]

-----------------------------------------------------------------------------
(* The file system and standard output. *)

NoFiles == [n \in {} |-> <<>>]
WriteFile(f, name, data) == [n \in DOMAIN f \cup {name} |-> IF n = name THEN data ELSE f[n]]
Unlink(f, name) == [n \in DOMAIN f \ {name} |-> f[n]]

Emit(o, msgs) == o \o msgs

-----------------------------------------------------------------------------
(* The logs the model runs the program on. *)

LogName == <<"screenshot", 0, ".log">>

\* The second invocation when there is none, and its locals before it starts:
\* main's result, png_file and exit status, and whether PIL imported.
NoPeer ==
    [pc |-> "idle", result |-> None, png_file |-> None, pil |-> None, exit_code |-> -1]

\* '\n'.join(lines)
RECURSIVE JoinWith(_, _)
JoinWith(sep, parts) ==
    IF parts = <<>> THEN <<>>
    ELSE IF Len(parts) = 1 THEN parts[1]
    ELSE parts[1] \o sep \o JoinWith(sep, Tail(parts))

SeqsUpTo(S, n) == UNION {[1..k -> S] : k \in 0..n}

\* Two pixels of data, an odd number of hex digits, a line that is not all hex,
\* a blank line, a metadata line, and the two markers.
HexLine == <<"a", "1", "0", "a", "0", "1", "a", "a">>
OddHexLine == <<"0", "0", "0">>
LineTemplates ==
    { start_marker, end_marker, HexLine, OddHexLine, <<"a", "g">>, <<>>,
      KeyWidth \o <<"1", " ">> \o KeyHeight \o <<"1">> }

LogTexts == {JoinWith(<<NL>>, ls) : ls \in SeqsUpTo(LineTemplates, MaxLines)}

\* Metadata tokens: three widths (one of them 0), two heights, a format, and a
\* WIDTH: that no digit follows.
MetaPieces ==
    { KeyWidth \o <<"2">>, KeyWidth \o <<"1", "0">>, KeyWidth \o <<"0">>,
      KeyHeight \o <<"3">>, KeyHeight \o <<"1">>,
      KeyFormat \o <<"R", "G", "B", "5", "6", "5">>, KeyWidth \o <<"x">> }

MetaTexts ==
    { JoinWith(<<NL>>, <<start_marker, JoinWith(<<" ">>, ts), HexLine, end_marker>>) :
        ts \in SeqsUpTo(MetaPieces, MaxTokens) }

Timestamps == 1..MaxClock

-----------------------------------------------------------------------------
(* The run of the program. *)

Init ==
    /\ pc = "main"
    /\ \/ argv = <<"extract_screenshot.py">> /\ fs = NoFiles
       \/ /\ argv = <<"extract_screenshot.py", LogName>>
          /\ fs \in {NoFiles} \cup {WriteFile(NoFiles, LogName, t) : t \in LogTexts \cup MetaTexts}
    /\ out = <<>>
    /\ exit_code = -1
    /\ content = None /\ start_idx = None /\ end_idx = None /\ section = None
    /\ width = None /\ height = None
    /\ hex_lines = None /\ hex_data = None /\ raw_data = None
    /\ result = None /\ pil = None /\ pixels = None /\ png_file = None
    /\ sample = <<>> /\ rgb = None /\ c8 = 0
    /\ peer = NoPeer

\* main, lines 141-154: the argument count and the log file's existence.
MainStart ==
    /\ pc = "main"
    /\ IF Len(argv) # 2
       THEN /\ out' = Emit(out, <<<<"Usage">>>>)
            /\ exit_code' = 1
            /\ pc' = "done"
       ELSE IF argv[2] \notin DOMAIN fs
       THEN /\ out' = Emit(out, <<<<"Error: Log file not found", argv[2]>>>>)
            /\ exit_code' = 1
            /\ pc' = "done"
       ELSE /\ out' = out
            /\ exit_code' = exit_code
            /\ pc' = "extract"
    /\ UNCHANGED <<argv, fs, content, start_idx, end_idx, section, width, height,
                   hex_lines, hex_data, raw_data, result, pil, pixels, png_file, pixVars, peer>>

\* extract_screenshot, lines 21-38: read the log and find the markers.
LocatePayload ==
    /\ pc = "extract"
    /\ LET c == fs[argv[2]]
           s == Find(c, start_marker)
           e == Find(c, end_marker)
           o == Emit(out, <<<<"Reading log file", argv[2]>>>>)
       IN  /\ content' = c
           /\ start_idx' = s
           /\ end_idx' = e
           /\ IF s = -1 \/ e = -1
              THEN /\ out' = Emit(o, <<<<"Error: Screenshot markers not found">>>>)
                   /\ section' = section
                   /\ pc' = "returned"
              ELSE /\ out' = o
                   /\ section' = Slice(c, s, e)
                   /\ pc' = "metadata"
    /\ UNCHANGED <<argv, fs, exit_code, width, height, hex_lines, hex_data, raw_data,
                   result, pil, pixels, png_file, pixVars, peer>>

\* The lookups chained: HEIGHT is read only when WIDTH was found.
ExtractMetadataChained ==
    /\ pc = "metadata"
    /\ LET format_match == ReSearch(section, 0, KeyFormat, "word")
           width_match  == ReSearch(section, 0, KeyWidth, "digit")
           height_match == IF width_match # <<>>
                           THEN ReSearch(section, 0, KeyHeight, "digit") ELSE <<>>
           w == IF width_match # <<>> THEN ParseInt(width_match) ELSE DefaultWidth
           h == IF height_match # <<>> THEN ParseInt(height_match) ELSE DefaultHeight
       IN  /\ width' = w
           /\ height' = h
           /\ out' = Emit(out,
                  (IF format_match # <<>> THEN <<<<"Format", format_match>>>> ELSE <<>>)
                  \o (IF width_match # <<>> THEN <<<<"Width", w>>>> ELSE <<>>)
                  \o (IF height_match # <<>> THEN <<<<"Height", h>>>> ELSE <<>>))
    /\ pc' = "collect"
    /\ UNCHANGED <<argv, fs, exit_code, content, start_idx, end_idx, section, hex_lines,
                   hex_data, raw_data, result, pil, pixels, png_file, pixVars, peer>>

\* extract_screenshot, lines 40-55: the three metadata lookups.
ExtractMetadata ==
    /\ pc = "metadata"
    /\ LET format_match == ReSearch(section, 0, KeyFormat, "word")
           width_match  == ReSearch(section, 0, KeyWidth, "digit")
           height_match == ReSearch(section, 0, KeyHeight, "digit")
           w == IF width_match # <<>> THEN ParseInt(width_match) ELSE DefaultWidth
           h == IF height_match # <<>> THEN ParseInt(height_match) ELSE DefaultHeight
       IN  /\ width' = w
           /\ height' = h
           /\ out' = Emit(out,
                  (IF format_match # <<>> THEN <<<<"Format", format_match>>>> ELSE <<>>)
                  \o (IF width_match # <<>> THEN <<<<"Width", w>>>> ELSE <<>>)
                  \o (IF height_match # <<>> THEN <<<<"Height", h>>>> ELSE <<>>))
    /\ pc' = "collect"
    /\ UNCHANGED <<argv, fs, exit_code, content, start_idx, end_idx, section, hex_lines,
                   hex_data, raw_data, result, pil, pixels, png_file, pixVars, peer>>

\* extract_screenshot, lines 57-70: the hex-only lines, joined.
CollectHex ==
    /\ pc = "collect"
    /\ LET hl == FindAllHexLines(section, 0)
       IN  /\ hex_lines' = hl
           /\ IF hl = <<>>
              THEN /\ out' = Emit(out, <<<<"Error: No hex data found">>>>)
                   /\ hex_data' = hex_data
                   /\ pc' = "returned"
              ELSE /\ out' = Emit(out, << <<"Found hex data lines", Len(hl)>>,
                                          <<"Total hex characters", Len(Join(hl))>>,
                                          <<"Expected bytes", width * height * 2>> >>)
                   /\ hex_data' = Join(hl)
                   /\ pc' = "decode"
    /\ UNCHANGED <<argv, fs, exit_code, content, start_idx, end_idx, section, width,
                   height, raw_data, result, pil, pixels, png_file, pixVars, peer>>

\* extract_screenshot, lines 72-79: hex to bytes.
DecodeHex ==
    /\ pc = "decode"
    /\ IF FromHexFails(hex_data)
       THEN /\ out' = Emit(out, <<<<"Error converting hex data">>>>)
            /\ raw_data' = raw_data
            /\ pc' = "returned"
       ELSE /\ out' = Emit(out, <<<<"Converted to bytes", Len(FromHex(hex_data))>>>>)
            /\ raw_data' = FromHex(hex_data)
            /\ pc' = "save"
    /\ UNCHANGED <<argv, fs, exit_code, content, start_idx, end_idx, section, width,
                   height, hex_lines, hex_data, result, pil, pixels, png_file, pixVars, peer>>

\* extract_screenshot, lines 81-89: write the raw file, named after the clock's second.
SaveRaw ==
    /\ pc = "save"
    /\ \E timestamp \in Timestamps :
         /\ fs' = WriteFile(fs, RawName(timestamp), raw_data)
         /\ out' = Emit(out, <<<<"Saved raw file", RawName(timestamp)>>>>)
         /\ result' = <<RawName(timestamp), width, height, timestamp>>
    /\ pc' = "returned"
    /\ UNCHANGED <<argv, exit_code, content, start_idx, end_idx, section, width, height,
                   hex_lines, hex_data, raw_data, pil, pixels, png_file, pixVars, peer>>

\* main, lines 156-160: extract_screenshot has returned.
MainResult ==
    /\ pc = "returned"
    /\ IF result = None
       THEN exit_code' = 1 /\ pc' = "done"
       ELSE exit_code' = exit_code /\ pc' = "convert"
    /\ UNCHANGED <<argv, fs, out, content, start_idx, end_idx, section, width, height,
                   hex_lines, hex_data, raw_data, result, pil, pixels, png_file, pixVars, peer>>

\* Image.putdata raises TypeError ("too many data entries") when it is given more
\* pixels than the image holds.
PutDataFails(px, w, h) == Len(px) > w * h

\* Both invocations import PIL from the one Python installation: what the other
\* invocation's import found, this one's finds too.
SamePython(available, other) == other = None \/ (available <=> other = "imported")

\* convert_to_png, lines 91-138, called by main at line 162.  open() at line 102
\* raises FileNotFoundError when the raw file is gone, which line 136 catches.
ConvertToPng ==
    /\ pc = "convert"
    /\ \E available \in {b \in BOOLEAN : SamePython(b, peer.pil)} :
         LET raw == result[1]
             w   == result[2]
             h   == result[3]
             png == PngName(result[4])
             o   == Emit(out, <<<<"Converting to PNG", png>>>>)
             conv == ConvertSamples(fs[raw], 0)
         IN  /\ pil' = IF available THEN "imported" ELSE "ImportError"
             /\ IF ~available
                THEN /\ out' = Emit(o, << <<"Error: PIL/Pillow not found">>,
                                          <<"recipe", RecipeImportError(w, h, raw, png)>> >>)
                     /\ pixels' = pixels
                     /\ fs' = fs
                     /\ png_file' = None
                ELSE IF raw \notin DOMAIN fs
                THEN /\ out' = Emit(o, <<<<"Error converting to PNG">>>>)
                     /\ pixels' = pixels
                     /\ fs' = fs
                     /\ png_file' = None
                ELSE IF ~conv.ok \/ PutDataFails(conv.pixels, w, h)
                THEN /\ out' = Emit(o, <<<<"Error converting to PNG">>>>)
                     /\ pixels' = conv.pixels
                     /\ fs' = fs
                     /\ png_file' = None
                ELSE /\ out' = Emit(o, <<<<"Successfully created", png>>>>)
                     /\ pixels' = conv.pixels
                     /\ fs' = WriteFile(fs, png, [size |-> <<w, h>>, data |-> conv.pixels])
                     /\ png_file' = png
    /\ pc' = "finish"
    /\ UNCHANGED <<argv, exit_code, content, start_idx, end_idx, section, width, height,
                   hex_lines, hex_data, raw_data, result, pixVars, peer>>

\* main deleting the raw file whatever convert_to_png returned.
MainFinishAlwaysCleans ==
    /\ pc = "finish"
    /\ fs' = Unlink(fs, result[1])
    /\ IF png_file # None
       THEN out' = Emit(out, << <<"Cleaned up raw file", result[1]>>,
                                <<"Screenshot saved as", png_file>> >>)
       ELSE out' = Emit(out, << <<"Raw data saved as", result[1]>>,
                                <<"recipe", RecipeMain(result[2], result[3], result[1],
                                                       PngName(result[4]))>> >>)
    /\ exit_code' = 0
    /\ pc' = "done"
    /\ UNCHANGED <<argv, content, start_idx, end_idx, section, width, height, hex_lines,
                   hex_data, raw_data, result, pil, pixels, png_file, pixVars, peer>>

\* main, lines 163-174: clean up after a conversion, or report the manual recipe.
\* unlink() raises FileNotFoundError when the raw file is gone (lines 168-169).
MainFinish ==
    /\ pc = "finish"
    /\ IF png_file # None
       THEN IF result[1] \in DOMAIN fs
            THEN /\ fs' = Unlink(fs, result[1])
                 /\ out' = Emit(out, << <<"Cleaned up raw file", result[1]>>,
                                        <<"Screenshot saved as", png_file>> >>)
            ELSE /\ fs' = fs
                 /\ out' = Emit(out, << <<"Warning: Could not delete raw file">>,
                                        <<"Screenshot saved as", png_file>> >>)
       ELSE /\ fs' = fs
            /\ out' = Emit(out, << <<"Raw data saved as", result[1]>>,
                                   <<"recipe", RecipeMain(result[2], result[3], result[1],
                                                          PngName(result[4]))>> >>)
    /\ exit_code' = 0
    /\ pc' = "done"
    /\ UNCHANGED <<argv, content, start_idx, end_idx, section, width, height, hex_lines,
                   hex_data, raw_data, result, pil, pixels, png_file, pixVars, peer>>

Next ==
    \/ MainStart
    \/ LocatePayload
    \/ ExtractMetadata
    \/ CollectHex
    \/ DecodeHex
    \/ SaveRaw
    \/ MainResult
    \/ ConvertToPng
    \/ MainFinish

Spec == Init /\ [][Next]_vars

-----------------------------------------------------------------------------
(* Two invocations of the script in one working directory.  The second one *)
(* runs the same code on its own log; its steps are the places where it    *)
(* touches the files of the directory.                                     *)

PeerLogName == <<"screenshot", 1, ".log">>

\* extract_screenshot, lines 21-79, as a function of the log's text.
ExtractOutcome(text) ==
    LET s   == Find(text, start_marker)
        e   == Find(text, end_marker)
        sec == Slice(text, s, e)
        width_match  == ReSearch(sec, 0, KeyWidth, "digit")
        height_match == ReSearch(sec, 0, KeyHeight, "digit")
        hl  == FindAllHexLines(sec, 0)
        failed == [ok |-> FALSE, width |-> None, height |-> None, raw_data |-> None]
    IN  IF s = -1 \/ e = -1 THEN failed
        ELSE IF hl = <<>> THEN failed
        ELSE IF FromHexFails(Join(hl)) THEN failed
        ELSE [ok |-> TRUE,
              width |-> IF width_match # <<>> THEN ParseInt(width_match) ELSE DefaultWidth,
              height |-> IF height_match # <<>> THEN ParseInt(height_match)
                         ELSE DefaultHeight,
              raw_data |-> FromHex(Join(hl))]

\* The second invocation's main, lines 141-160, with extract_screenshot whole:
\* it reads its log and, at lines 83-86, writes the raw file named after the second.
PeerExtract ==
    /\ peer.pc = "main"
    /\ LET x == ExtractOutcome(fs[PeerLogName])
       IN  IF ~x.ok
           THEN /\ fs' = fs
                /\ peer' = [peer EXCEPT !.pc = "done", !.exit_code = 1]
           ELSE \E timestamp \in Timestamps :
                  /\ fs' = WriteFile(fs, RawName(timestamp), x.raw_data)
                  /\ peer' = [peer EXCEPT !.pc = "convert",
                                 !.result = <<RawName(timestamp), x.width, x.height,
                                              timestamp>>]
    /\ UNCHANGED <<pc, argv, out, exit_code, content, start_idx, end_idx, section, width,
                   height, hex_lines, hex_data, raw_data, result, pil, pixels, png_file,
                   pixVars>>

\* The second invocation's convert_to_png, lines 91-138.
PeerConvert ==
    /\ peer.pc = "convert"
    /\ \E available \in {b \in BOOLEAN : SamePython(b, pil)} :
         LET raw  == peer.result[1]
             w    == peer.result[2]
             h    == peer.result[3]
             png  == PngName(peer.result[4])
             conv == ConvertSamples(fs[raw], 0)
         IN  IF ~available
             THEN /\ fs' = fs
                  /\ peer' = [peer EXCEPT !.pc = "finish", !.pil = "ImportError"]
             ELSE IF raw \notin DOMAIN fs
             THEN /\ fs' = fs
                  /\ peer' = [peer EXCEPT !.pc = "finish", !.pil = "imported"]
             ELSE IF ~conv.ok \/ PutDataFails(conv.pixels, w, h)
             THEN /\ fs' = fs
                  /\ peer' = [peer EXCEPT !.pc = "finish", !.pil = "imported"]
             ELSE /\ fs' = WriteFile(fs, png, [size |-> <<w, h>>, data |-> conv.pixels])
                  /\ peer' = [peer EXCEPT !.pc = "finish", !.pil = "imported",
                                          !.png_file = png]
    /\ UNCHANGED <<pc, argv, out, exit_code, content, start_idx, end_idx, section, width,
                   height, hex_lines, hex_data, raw_data, result, pil, pixels, png_file,
                   pixVars>>

\* The second invocation's main, lines 163-174.
PeerFinish ==
    /\ peer.pc = "finish"
    /\ IF peer.png_file # None /\ peer.result[1] \in DOMAIN fs
       THEN fs' = Unlink(fs, peer.result[1])
       ELSE fs' = fs
    /\ peer' = [peer EXCEPT !.pc = "done", !.exit_code = 0]
    /\ UNCHANGED <<pc, argv, out, exit_code, content, start_idx, end_idx, section, width,
                   height, hex_lines, hex_data, raw_data, result, pil, pixels, png_file,
                   pixVars>>

\* Logs for the two invocations: one that converts (2 pixels, 2x1), one whose
\* pixels exceed its 1x1 image, one that converts with the default size, one with
\* an odd number of hex digits, and one without an end marker.
TwoRunTexts ==
    { JoinWith(<<NL>>, <<start_marker, KeyWidth \o <<"2", " ">> \o KeyHeight \o <<"1">>,
                         HexLine, end_marker>>),
      JoinWith(<<NL>>, <<start_marker, KeyWidth \o <<"1", " ">> \o KeyHeight \o <<"1">>,
                         HexLine, end_marker>>),
      JoinWith(<<NL>>, <<start_marker, HexLine, end_marker>>),
      JoinWith(<<NL>>, <<start_marker, OddHexLine, end_marker>>),
      JoinWith(<<NL>>, <<start_marker, HexLine>>) }

InitTwoRuns ==
    /\ pc = "main"
    /\ argv = <<"extract_screenshot.py", LogName>>
    /\ \E t \in TwoRunTexts, u \in TwoRunTexts :
         fs = WriteFile(WriteFile(NoFiles, LogName, t), PeerLogName, u)
    /\ out = <<>>
    /\ exit_code = -1
    /\ content = None /\ start_idx = None /\ end_idx = None /\ section = None
    /\ width = None /\ height = None
    /\ hex_lines = None /\ hex_data = None /\ raw_data = None
    /\ result = None /\ pil = None /\ pixels = None /\ png_file = None
    /\ sample = <<>> /\ rgb = None /\ c8 = 0
    /\ peer = [NoPeer EXCEPT !.pc = "main"]

NextTwoRuns ==
    \/ MainStart
    \/ LocatePayload
    \/ ExtractMetadata
    \/ CollectHex
    \/ DecodeHex
    \/ SaveRaw
    \/ MainResult
    \/ ConvertToPng
    \/ MainFinish
    \/ PeerExtract
    \/ PeerConvert
    \/ PeerFinish

SpecTwoRuns == InitTwoRuns /\ [][NextTwoRuns]_vars

-----------------------------------------------------------------------------
(* The pixel conversion on its own: every 16-bit sample, and the round trip *)
(* of an 8-bit channel value through its nearest 5- and 6-bit codes.        *)

PipelineIdle ==
    /\ pc = "idle" /\ argv = <<>> /\ fs = NoFiles /\ out = <<>> /\ exit_code = -1
    /\ content = None /\ start_idx = None /\ end_idx = None /\ section = None
    /\ width = None /\ height = None
    /\ hex_lines = None /\ hex_data = None /\ raw_data = None
    /\ result = None /\ pil = None /\ pixels = None /\ png_file = None
    /\ peer = NoPeer

\* The loop body of convert_to_png (lines 109-121) applied to one sample.
PixelConvert ==
    /\ Len(sample) = 2
    /\ rgb = None
    /\ rgb' = Rgb565ToRgb888(UnpackH(sample))
    /\ UNCHANGED <<pipeVars, sample, c8, peer>>

InitPixel ==
    /\ PipelineIdle
    /\ sample \in [1..2 -> 0..255]
    /\ rgb = None
    /\ c8 = 0

SpecPixel == InitPixel /\ [][PixelConvert]_vars

Dist(a, b) == IF a >= b THEN a - b ELSE b - a

\* The 5-bit (6-bit) code whose expansion, as the specification writes it, is
\* nearest to c (the lowest such code on a tie).
Nearest5(c) ==
    CHOOSE v \in 0..31 :
        \A u \in 0..31 :
            \/ Dist(8 * v + v \div 4, c) < Dist(8 * u + u \div 4, c)
            \/ Dist(8 * v + v \div 4, c) = Dist(8 * u + u \div 4, c) /\ v <= u
Nearest6(c) ==
    CHOOSE v \in 0..63 :
        \A u \in 0..63 :
            \/ Dist(4 * v + v \div 16, c) < Dist(4 * u + u \div 16, c)
            \/ Dist(4 * v + v \div 16, c) = Dist(4 * u + u \div 16, c) /\ v <= u

\* The nearest packed representation of the grey (c8, c8, c8), as the two
\* big-endian bytes the converter reads.
RoundEncode ==
    /\ sample = <<>>
    /\ LET val == 2048 * Nearest5(c8) + 32 * Nearest6(c8) + Nearest5(c8)
       IN  sample' = <<val \div 256, val % 256>>
    /\ UNCHANGED <<pipeVars, rgb, c8, peer>>

InitRound ==
    /\ PipelineIdle
    /\ sample = <<>>
    /\ rgb = None
    /\ c8 \in 0..255

NextRound == RoundEncode \/ PixelConvert

SpecRound == InitRound /\ [][NextRound]_vars

-----------------------------------------------------------------------------
(* C2 *)

SampleVal == 256 * sample[1] + sample[2]

\* C2: every 16-bit sample, read big-endian, yields r8 = (r5 << 3) | (r5 >> 2),
\* g8 = (g6 << 2) | (g6 >> 4), b8 = (b5 << 3) | (b5 >> 2) with r5, g6, b5 the
\* bit fields 15-11, 10-5, 4-0, each channel in 0..255; and the five table
\* values come out exactly. (The shifted operands share no bit, so each "|" is
\* written here as a sum.)
PixelFormula ==
    rgb # None =>
        LET r5 == (SampleVal \div 2048) % 32
            g6 == (SampleVal \div 32) % 64
            b5 == SampleVal % 32
        IN  /\ rgb = <<8 * r5 + r5 \div 4, 4 * g6 + g6 \div 16, 8 * b5 + b5 \div 4>>
            /\ \A k \in 1..3 : rgb[k] \in 0..255
            /\ (sample = <<248, 0>> => rgb = <<255, 0, 0>>)
            /\ (sample = <<7, 224>> => rgb = <<0, 255, 0>>)
            /\ (sample = <<0, 31>> => rgb = <<0, 0, 255>>)
            /\ (sample = <<255, 255>> => rgb = <<255, 255, 255>>)
            /\ (sample = <<0, 0>> => rgb = <<0, 0, 0>>)

PixelFormulaWitness == sample = <<248, 0>> /\ rgb # None /\ rgb = <<255, 0, 0>>

-----------------------------------------------------------------------------
(* C10 *)

\* C10: an 8-bit value sent through its nearest 5-bit code and the converter
\* comes back within 4, and through its nearest 6-bit code within 2.
RoundTripBound ==
    rgb # None =>
        /\ Dist(rgb[1], c8) <= 4
        /\ Dist(rgb[2], c8) <= 2
        /\ Dist(rgb[3], c8) <= 4

\* 37 lies 4 above the expansion 33 of code 4 and 4 below the expansion 41 of code 5.
RoundTripWitness == c8 = 37 /\ rgb # None /\ Dist(rgb[1], c8) = 4

-----------------------------------------------------------------------------
(* What the properties of the pipeline are stated with. *)

\* extract_screenshot has been entered and has returned.
AfterExtract == pc \in {"returned", "convert", "finish", "done"} /\ content # None

Printed(tag) == \E i \in 1..Len(out) : out[i][1] = tag

\* The manual conversion recipes reported so far.
Recipes == {out[i][2] : i \in {j \in 1..Len(out) : out[j][1] = "recipe"}}

Least(S) == CHOOSE i \in S : \A j \in S : i <= j

\* The lines of s, line endings removed.
RECURSIVE SplitLines(_)
SplitLines(s) ==
    LET nl == {i \in 1..Len(s) : s[i] = NL}
    IN  IF nl = {} THEN <<s>>
        ELSE <<SubSeq(s, 1, Least(nl) - 1)>> \o SplitLines(SubSeq(s, Least(nl) + 1, Len(s)))

HexAlphabet ==
    {"0", "1", "2", "3", "4", "5", "6", "7", "8", "9", "a", "b", "c", "d", "e", "f",
     "A", "B", "C", "D", "E", "F"}

IsHexOnly(line) == line # <<>> /\ \A k \in 1..Len(line) : line[k] \in HexAlphabet

RetainedLines(s) == SelectSeq(SplitLines(s), IsHexOnly)

RECURSIVE Flatten(_)
Flatten(ls) ==
    IF ls = <<>> THEN <<>> ELSE Flatten(SubSeq(ls, 1, Len(ls) - 1)) \o ls[Len(ls)]

\* The pixels of the complete 16-bit samples of data, in order.
PixelsOfPrefix(data) ==
    [k \in 1..(Len(data) \div 2) |->
        Rgb565ToRgb888(UnpackH(<<data[2 * k - 1], data[2 * k]>>))]

-----------------------------------------------------------------------------
(* C1 *)

\* C1: an odd number n >= 1 of decoded bytes handed to convert_to_png (with the
\* encoder present) is converted without an error outcome: floor(n/2) pixels,
\* built from the even-length prefix in order, and a PNG name returned.
OddTailDropped ==
    (pc \in {"finish", "done"} /\ pil = "imported" /\ Len(raw_data) % 2 = 1) =>
        /\ png_file # None
        /\ Len(pixels) = Len(raw_data) \div 2
        /\ pixels = PixelsOfPrefix(raw_data)

-----------------------------------------------------------------------------
(* C3 *)

\* Where the start marker ends, and the end markers at or after that offset.
SpanStart(c) == Find(c, start_marker) + Len(start_marker)
EndsAfterStart(c) == {i \in SpanStart(c)..Len(c) : StartsWithAt(c, i, end_marker)}
Locatable(c) == Find(c, start_marker) # -1 /\ EndsAfterStart(c) # {}
SpanBetween(c) == Slice(c, SpanStart(c), Least(EndsAfterStart(c)))

\* C3: the end marker is searched only after the start marker. The located
\* span is the text strictly between the first start marker and the first end
\* marker after it, so the start marker ends no later than the end marker
\* begins; a log without an end marker after the start marker fails as a
\* missing marker; and a log of the form END ... START <hex lines> END is
\* extracted successfully.
LocatorSearchesAfterStart ==
    AfterExtract =>
        IF Locatable(content)
        THEN /\ section # None
             /\ section = SpanBetween(content)
             /\ start_idx + Len(start_marker) <= end_idx
             /\ (/\ RetainedLines(SpanBetween(content)) # <<>>
                 /\ Len(Flatten(RetainedLines(SpanBetween(content)))) % 2 = 0
                 => result # None)
        ELSE /\ section = None
             /\ result = None
             /\ Printed("Error: Screenshot markers not found")

-----------------------------------------------------------------------------
(* C4 *)

\* C4: the collected hex text is the concatenation, in order and with no
\* separator, of the lines of the span that are non-empty and all hex digits;
\* no other line contributes; and the no-payload error is reported exactly
\* when no line is retained.
HexTextIsRetainedLines ==
    hex_lines # None =>
        /\ hex_lines = RetainedLines(section)
        /\ (Printed("Error: No hex data found") <=> RetainedLines(section) = <<>>)
        /\ IF RetainedLines(section) = <<>>
           THEN hex_data = None /\ result = None
           ELSE hex_data # None /\ hex_data = Flatten(RetainedLines(section))

\* A line of log noise between two retained lines.
HexTextWitness ==
    /\ hex_data # None
    /\ Len(hex_lines) = 2
    /\ \E k \in 2..(Len(SplitLines(section)) - 1) :
          /\ SplitLines(section)[k] = <<"a", "g">>
          /\ SplitLines(section)[k - 1] = hex_lines[1]
          /\ SplitLines(section)[k + 1] = hex_lines[2]
    /\ hex_lines[1] # hex_lines[2]
    /\ hex_data = hex_lines[1] \o hex_lines[2]

-----------------------------------------------------------------------------
(* C5 *)

\* C5: when extraction aborts (a marker is absent, no hex-only line lies in
\* the section, or the hex text has odd length, which the decoder refuses), no
\* output file has been created, convert_to_png has not been invoked, and main
\* ends with exit status 1.
FatalAbortLeavesNothing ==
    AfterExtract =>
        /\ ( \/ Find(content, start_marker) = -1
             \/ Find(content, end_marker) = -1
             \/ (hex_lines # None /\ hex_lines = <<>>)
             \/ (hex_data # None /\ Len(hex_data) % 2 = 1)
             => result = None )
        /\ ( result = None =>
               /\ DOMAIN fs = {LogName}
               /\ ~Printed("Saved raw file")
               /\ ~Printed("Converting to PNG")
               /\ pil = None
               /\ png_file = None
               /\ pc \in {"returned", "done"}
               /\ (pc = "done" => exit_code = 1) )

\* A run that ended on hex text of odd length.
FatalAbortWitness ==
    /\ pc = "done"
    /\ hex_data # None
    /\ Len(hex_data) % 2 = 1
    /\ exit_code = 1

-----------------------------------------------------------------------------
(* C6 *)

\* C6: when the import of the encoder fails, the run ends with exit status 0,
\* the raw file exists, holds the decoded bytes and is not empty, no PNG is
\* written, and every recipe reported carries the width and height the
\* metadata lookups determined.
EncoderMissingIsSuccess ==
    (pc = "done" /\ pil = "ImportError") =>
        /\ exit_code = 0
        /\ png_file = None
        /\ DOMAIN fs = {LogName, result[1]}
        /\ fs[result[1]] = raw_data
        /\ Len(fs[result[1]]) > 0
        /\ Recipes # {}
        /\ \A r \in Recipes : r.size = <<width, height>> /\ r.from = result[1]

\* Such a run with both dimensions taken from the log.
EncoderMissingWitness ==
    /\ pc = "done"
    /\ pil = "ImportError"
    /\ width = 2
    /\ height = 3

-----------------------------------------------------------------------------
(* C7 *)

\* C7: a decoded pixel count that differs from width*height never blocks
\* emission: with the encoder present the run still writes the image built
\* from the complete 16-bit samples.
MismatchNeverBlocks ==
    (pc = "done" /\ pil = "imported" /\ Len(raw_data) \div 2 # width * height) =>
        /\ png_file # None
        /\ png_file \in DOMAIN fs
        /\ fs[png_file].data = PixelsOfPrefix(raw_data)

-----------------------------------------------------------------------------
(* C8 *)

\* C8: when the encoder is unavailable, every manual recipe the run has
\* reported describes the raw file as 16-bit big-endian packed RGB 5/6/5, the
\* byte order and layout convert_to_png itself decodes.
RecipesStateDecoderLayout ==
    (pc = "done" /\ pil = "ImportError") =>
        \A r \in Recipes : r.endian = DecoderByteOrder /\ r.coder = "RGB565"

-----------------------------------------------------------------------------
(* C9 *)

\* The offsets of s at which key is followed by a character of class cls.
TokenAt(s, key, cls) ==
    {i \in 0..Len(s) : /\ StartsWithAt(s, i, key)
                       /\ i + Len(key) < Len(s)
                       /\ InClass(At(s, i + Len(key)), cls)}

\* The value of the first token of s with this key: the characters of class
\* cls that follow it, up to the first character of another class.
FirstToken(s, key, cls) ==
    LET from == Least(TokenAt(s, key, cls)) + Len(key)
        to   == CHOOSE e \in (from + 1)..Len(s) :
                    /\ \A k \in from..(e - 1) : InClass(At(s, k), cls)
                    /\ (e = Len(s) \/ ~InClass(At(s, e), cls))
    IN  SubSeq(s, from + 1, to)

RECURSIVE Decimal(_)
Decimal(d) == IF d = <<>> THEN 0 ELSE DigitVal(d[1]) * 10 ^ (Len(d) - 1) + Decimal(Tail(d))

\* C9: the three lookups are independent. Each of FORMAT, WIDTH, HEIGHT that
\* occurs in the section yields the value of its first occurrence, each that
\* does not leaves its default (width 240, height 320), whatever the other two
\* do; no combination makes extraction fail, and a section without tokens
\* gives 240 by 320.
MetadataLookupsIndependent ==
    (pc \in {"collect", "decode", "save", "returned", "convert", "finish", "done"}
     /\ section # None) =>
        /\ width = IF TokenAt(section, KeyWidth, "digit") = {} THEN 240
                   ELSE Decimal(FirstToken(section, KeyWidth, "digit"))
        /\ height = IF TokenAt(section, KeyHeight, "digit") = {} THEN 320
                    ELSE Decimal(FirstToken(section, KeyHeight, "digit"))
        /\ IF TokenAt(section, KeyFormat, "word") = {}
           THEN ~Printed("Format")
           ELSE \E i \in 1..Len(out) :
                    out[i] = <<"Format", FirstToken(section, KeyFormat, "word")>>
        /\ (result # None => result[2] = width /\ result[3] = height)
        /\ (pc = "done" /\ content \in MetaTexts => exit_code = 0 /\ result # None)

\* HEIGHT present and WIDTH absent: the height is read, the width defaulted.
MetadataWitness ==
    /\ pc = "done"
    /\ result # None
    /\ TokenAt(section, KeyWidth, "digit") = {}
    /\ TokenAt(section, KeyHeight, "digit") # {}
    /\ TokenAt(section, KeyFormat, "word") # {}
    /\ result[2] = 240
    /\ result[3] = 3

-----------------------------------------------------------------------------
(* C11 *)

\* C11: every frame metadata value a successful extraction returns has
\* width > 0 and height > 0.
ReturnedDimensionsPositive ==
    result # None => result[2] > 0 /\ result[3] > 0

-----------------------------------------------------------------------------
(* C12 *)

\* The raw and PNG files an invocation has written so far, and the files it
\* writes, reads or deletes in the course of its run (lines 84-86, 102, 126, 166).
WrittenBy(res, png) ==
    IF res = None THEN {} ELSE {res[1]} \cup (IF png = None THEN {} ELSE {png})
TouchedBy(res) ==
    IF res = None THEN {} ELSE {res[1], PngName(res[4])}

\* C12: of two runs of the pipeline, the raw and PNG files one run writes are
\* never written, overwritten, read or deleted by the other run.
RunsShareNoFiles ==
    /\ WrittenBy(result, png_file) \cap TouchedBy(peer.result) = {}
    /\ WrittenBy(peer.result, peer.png_file) \cap TouchedBy(result) = {}

-----------------------------------------------------------------------------
(* C13 *)

\* C13: a run whose extraction succeeded ends with the raw file or the PNG on
\* disk; its raw file is gone at the end only if its convert_to_png returned a
\* saved PNG; and when its conversion failed, for whatever reason, the raw file
\* is still on disk and main's exit status is 0.
RawFileLifecycle ==
    (pc = "done" /\ result # None) =>
        /\ result[1] \in DOMAIN fs \/ (png_file # None /\ png_file \in DOMAIN fs)
        /\ result[1] \notin DOMAIN fs => png_file # None
        /\ png_file = None => result[1] \in DOMAIN fs /\ exit_code = 0

====
